---- MODULE Spec2Model ----
(***************************************************************************)
(* Model of LeituraPulsos.ino: a pulse counter whose edge interrupt        *)
(* (pulseInterrupt) shares its counters and its adaptive debounce state    *)
(* with the polling loop (loop), which reports pulses, checks the reset    *)
(* button and resets the counters manually or every AUTO_RESET_INTERVAL.   *)
(*                                                                         *)
(* The interrupt handler runs to completion, so it is one action.  The     *)
(* loop is split at every access to a volatile variable and at every       *)
(* millis() call, because the handler can run between any two of them      *)
(* while interrupts are not masked.  Time passes before an edge (the gap   *)
(* since the step before it), in delay() and while the loop is blocked     *)
(* between two iterations.                                                 *)
(***************************************************************************)
EXTENDS Integers, Sequences, FiniteSets

\* ---------------------------------------------------------------- constants

DEBOUNCE_TIME_US_MIN == 100
DEBOUNCE_TIME_US_MAX == 5000
DEBOUNCE_TIME_US_DEFAULT == 1000
BUTTON_DEBOUNCE_MS == 50
DISPLAY_INTERVAL == 1000
AUTO_RESET_INTERVAL == 30000
AUTO_RESET_ENABLED == TRUE
HISTORY_SIZE == 5
DELAY_MS == 10

\* unsigned long is 32 bits wide.  A value u is held as the integer with the
\* same 32 bits in two's complement: u itself below 2^31 and u - 2^32 from
\* 2^31 on, so that every value and every intermediate result is a 32-bit
\* integer.  TWO_TO_30 is the largest power of two the operators below need.
TWO_TO_30 == 1073741824

HIGH == TRUE
LOW == FALSE

\* ------------------------------------------------------------------- bounds

\* how many times the clock advances in one behaviour
MaxTicks == 3

\* SpecWarm: how many edges the handler accepted before the first iteration
WarmEdges == 4

\* the time (in microseconds) between an edge and the step before it
Gaps == {0, 1000, 1500}

\* the time (in microseconds) the loop can stay blocked between two iterations
Waits == {30000000}

\* SpecWrap: how long (in microseconds) before micros() wraps the run starts
WrapLeads == {9500}

\* SpecSteady: the interval of the steady edges and the threshold they meet
SteadyIntervals == {1150, 6000, 12000, 30000, 60000, 120000}
StartThresholds == {100, 497, 500, 503, 1000, 2497, 4999, 5000}

\* SpecSteady: how many steady edges arrive in one behaviour
MaxRepeats == 30

\* ------------------------------------------------- unsigned long arithmetic

ULONG_TOP == (TWO_TO_30 - 1) + TWO_TO_30      \* 2^31 - 1

\* a + b modulo 2^32
RECURSIVE UAdd(_, _)
UAdd(a, b) ==
    IF a >= 0 /\ b >= 0
    THEN IF a > ULONG_TOP - b
         THEN (((a - TWO_TO_30) - TWO_TO_30) + b) - TWO_TO_30 - TWO_TO_30
         ELSE a + b
    ELSE IF a < 0 /\ b < 0
         THEN UAdd((a + TWO_TO_30) + TWO_TO_30, (b + TWO_TO_30) + TWO_TO_30)
         ELSE a + b

\* -b modulo 2^32
UNeg(b) == IF b = (0 - TWO_TO_30) - TWO_TO_30 THEN b ELSE 0 - b

\* a - b modulo 2^32
USub(a, b) == UAdd(a, UNeg(b))

\* a < b, a > b and a >= b on the unsigned values
ULess(a, b) == IF (a >= 0) = (b >= 0) THEN a < b ELSE b < 0
UGreater(a, b) == ULess(b, a)
UGeq(a, b) == ~ULess(a, b)

\* a / k on the unsigned value, for a divisor 0 < k < 2^15
UDiv(a, k) ==
    IF a >= 0 \/ k = 1 THEN a \div k
    ELSE LET y == (a + TWO_TO_30) + TWO_TO_30
             q31 == 2 * (TWO_TO_30 \div k) + (2 * (TWO_TO_30 % k)) \div k
             r31 == (2 * (TWO_TO_30 % k)) % k
         IN (y \div k) + q31 + ((y % k) + r31) \div k


\* ---------------------------------------------------------------- variables

VARIABLES
    micros,              \* micros(): time since boot in microseconds, 32 bits
    millis,              \* millis(): time since boot in milliseconds, 32 bits
    subMs,               \* microseconds elapsed in the current millisecond
    nTicks,              \* number of clock advances so far
    pulseCount, lastPulseTime, pulseInterval, newPulseReceived,
    currentDebounceTime, pulseHistory, historyIndex,
    intsMasked,          \* TRUE between noInterrupts() and interrupts()
    pc,                  \* position of the polling loop
    currentTime,         \* loop(): unsigned long currentTime
    lastDisplayTime, lastResetTime, lastPulseCount,
    lastButtonState, lastButtonTime,
    report,              \* what loop() read for the pulse line it prints
    pulsesInLastSecond,  \* loop(): the windowed count of the periodic report
    autoReport,          \* autoResetCounter(): totalPulses and elapsedTime
    accepted,            \* history: edges accepted since boot
    recent,              \* history: the latest intervals accepted since a reset
    windowBase,          \* history: accepted when lastPulseCount was sampled
    observed,            \* history: times loop() found newPulseReceived set
    ev                   \* history: which context took the last step

captureVars == <<pulseCount, lastPulseTime, pulseInterval, newPulseReceived>>
debounceVars == <<currentDebounceTime, pulseHistory, historyIndex>>
timeVars == <<micros, millis, subMs, nTicks>>
buttonVars == <<lastButtonState, lastButtonTime>>
loopVars == <<currentTime, lastDisplayTime, lastResetTime, lastPulseCount,
              report, pulsesInLastSecond, autoReport>>
vars == <<micros, millis, subMs, nTicks, pulseCount, lastPulseTime,
          pulseInterval, newPulseReceived, currentDebounceTime, pulseHistory,
          historyIndex, intsMasked, pc, currentTime, lastDisplayTime,
          lastResetTime, lastPulseCount, lastButtonState, lastButtonTime,
          report, pulsesInLastSecond, autoReport, accepted, recent,
          windowBase, observed, ev>>

\* ------------------------------------------------------------------ helpers

EmptyHistory == [i \in 0 .. (HISTORY_SIZE - 1) |-> 0]

\* the locals of the pulse line of loop(): instantFrequency as the fraction
\* <<numerator, denominator>> and the three values printed; edges is the
\* number of edges accepted when the first of the four was read and torn
\* tells whether a later one was read after more edges had been accepted
NoReport == [freq |-> <<0, 1>>, count |-> 0, interval |-> 0, debounce |-> 0,
             edges |-> 0, torn |-> FALSE, printed |-> FALSE]

NoAutoReport == [totalPulses |-> 0, elapsedTime |-> 0]

\* the last HISTORY_SIZE elements of a sequence
Latest(q) ==
    IF Len(q) <= HISTORY_SIZE THEN q
    ELSE SubSeq(q, Len(q) - HISTORY_SIZE + 1, Len(q))

\* micros() and millis() after d more microseconds
Elapse(d) ==
    /\ micros' = UAdd(micros, d)
    /\ subMs' = (subMs + d) % 1000
    /\ millis' = UAdd(millis, (subMs + d) \div 1000)

\* the clock after d more microseconds
Advance(d) ==
    /\ nTicks + (IF d = 0 THEN 0 ELSE 1) <= MaxTicks
    /\ nTicks' = nTicks + (IF d = 0 THEN 0 ELSE 1)
    /\ Elapse(d)

\* ------------------------------------------------- updateAdaptiveDebounce()

RECURSIVE SumValid(_, _)
SumValid(h, i) ==
    IF i = HISTORY_SIZE THEN 0
    ELSE UAdd(IF h[i] # 0 THEN h[i] ELSE 0, SumValid(h, i + 1))

ValidCount(h) == Cardinality({i \in 0 .. (HISTORY_SIZE - 1) : h[i] # 0})

ClampDebounceNoUpper(d) ==
    IF ULess(d, DEBOUNCE_TIME_US_MIN) THEN DEBOUNCE_TIME_US_MIN ELSE d

ClampDebounce(d) ==
    IF ULess(d, DEBOUNCE_TIME_US_MIN) THEN DEBOUNCE_TIME_US_MIN
    ELSE IF UGreater(d, DEBOUNCE_TIME_US_MAX) THEN DEBOUNCE_TIME_US_MAX
    ELSE d

SmoothCeiling(old, new) == (old * 7 + new * 3 + 9) \div 10

SmoothRounded(old, new) == (old * 7 + new * 3 + 5) \div 10

SmoothSwapped(old, new) == (old * 3 + new * 7) \div 10

\* line 413; both operands stay far below 2^31
Smooth(old, new) == (old * 7 + new * 3) \div 10

UpdateAdaptiveDebounceFromOne(h, old) ==
    IF ValidCount(h) >= 1
    THEN Smooth(old, ClampDebounce(UDiv(UDiv(SumValid(h, 0), ValidCount(h)),
                                        12)))
    ELSE old

\* lines 383-415
UpdateAdaptiveDebounce(h, old) ==
    IF ValidCount(h) >= 2
    THEN Smooth(old, ClampDebounce(UDiv(UDiv(SumValid(h, 0), ValidCount(h)),
                                        12)))
    ELSE old

\* --------------------------------------------------------- pulseInterrupt()

PassesDebounceInclusive(interval, debounce) == UGeq(interval, debounce)

\* the debounce test of line 133
PassesDebounce(interval, debounce) == UGreater(interval, debounce)

NextHistoryIndexNoWrap(i) == i + 1

NextHistoryIndex(i) == (i + 1) % HISTORY_SIZE

IncrementCountTwice(c) == UAdd(c, 2)

IncrementCount(c) == UAdd(c, 1)

\* the handler runs only while interrupts are not masked
InterruptsEnabled == ~intsMasked

\* the variables the handler shares with the loop, as one record
Shared ==
    [pulseCount |-> pulseCount, lastPulseTime |-> lastPulseTime,
     pulseInterval |-> pulseInterval, newPulseReceived |-> newPulseReceived,
     currentDebounceTime |-> currentDebounceTime,
     pulseHistory |-> pulseHistory, historyIndex |-> historyIndex]

HandleEdgeWritesNextSlot(s, t) ==
    LET interval == USub(t, s.lastPulseTime)
        next == NextHistoryIndex(s.historyIndex)
        h == [s.pulseHistory EXCEPT ![next] = interval]
    IN IF PassesDebounce(interval, s.currentDebounceTime)
       THEN [pulseCount |-> IncrementCount(s.pulseCount),
             lastPulseTime |-> t,
             pulseInterval |-> interval,
             newPulseReceived |-> TRUE,
             currentDebounceTime |->
                 UpdateAdaptiveDebounce(h, s.currentDebounceTime),
             pulseHistory |-> h,
             historyIndex |-> next]
       ELSE s

\* lines 129-153: the shared variables after the handler ran at time t
HandleEdge(s, t) ==
    LET interval == USub(t, s.lastPulseTime)
        h == [s.pulseHistory EXCEPT ![s.historyIndex] = interval]
    IN IF PassesDebounce(interval, s.currentDebounceTime)
       THEN [pulseCount |-> IncrementCount(s.pulseCount),
             lastPulseTime |-> t,
             pulseInterval |-> interval,
             newPulseReceived |-> TRUE,
             currentDebounceTime |->
                 UpdateAdaptiveDebounce(h, s.currentDebounceTime),
             pulseHistory |-> h,
             historyIndex |-> NextHistoryIndex(s.historyIndex)]
       ELSE s

\* lines 127-154: the handler runs at the time the clock has reached
RunHandler ==
    /\ InterruptsEnabled
    /\ ev' = "isr"
    /\ LET n == HandleEdge(Shared, micros')
       IN /\ pulseCount' = n.pulseCount
          /\ lastPulseTime' = n.lastPulseTime
          /\ pulseInterval' = n.pulseInterval
          /\ newPulseReceived' = n.newPulseReceived
          /\ currentDebounceTime' = n.currentDebounceTime
          /\ pulseHistory' = n.pulseHistory
          /\ historyIndex' = n.historyIndex
          /\ accepted' = IF n = Shared THEN accepted ELSE accepted + 1
          /\ recent' = IF n = Shared THEN recent
                        ELSE Latest(Append(recent, n.pulseInterval))
    /\ UNCHANGED <<intsMasked, pc, buttonVars, loopVars,
                   windowBase, observed>>

\* the handler, for an edge that arrives gap microseconds after the last step
PulseInterrupt ==
    /\ \E gap \in Gaps : Advance(gap)
    /\ RunHandler

\* ------------------------------------------------------ loop(): the frame

\* every step of the polling loop leaves the clock and the count of accepted
\* edges; the steps that clear pulseHistory start a new record of intervals
LoopStep(from, to) ==
    /\ pc = from
    /\ pc' = to
    /\ ev' = "loop"
    /\ recent' = IF from \in {"rc_debounce", "ar_debounce"} THEN <<>>
                  ELSE recent
    /\ UNCHANGED <<timeVars, accepted>>

\* line 245
LoopStart ==
    /\ LoopStep("loop_start", "button")
    /\ currentTime' = millis
    /\ UNCHANGED <<captureVars, debounceVars, intsMasked, buttonVars,
                   lastDisplayTime, lastResetTime, lastPulseCount,
                   windowBase, report,
                   pulsesInLastSecond, autoReport, observed>>

\* ------------------------------------------------------ checkButtonPress()

\* lines 348-364 and 367 when no reset is called: the pin reads level
CheckButtonPress ==
    /\ pc = "button"
    /\ ev' = "loop"
    /\ \E level \in BOOLEAN :
         IF level # lastButtonState
            /\ UGreater(USub(millis, lastButtonTime), BUTTON_DEBOUNCE_MS)
         THEN /\ lastButtonTime' = millis
              /\ IF level = LOW /\ lastButtonState = HIGH
                 THEN pc' = "rc_mask" /\ UNCHANGED lastButtonState
                 ELSE pc' = "auto_check" /\ lastButtonState' = level
         ELSE pc' = "auto_check" /\ UNCHANGED buttonVars
    /\ UNCHANGED <<timeVars, captureVars, debounceVars, intsMasked, loopVars,
                   windowBase,
                   accepted, recent, observed>>

\* line 367 after resetCounter() returned: the level read was LOW
ButtonUpdate ==
    /\ LoopStep("button_update", "auto_check")
    /\ lastButtonState' = LOW
    /\ UNCHANGED <<captureVars, debounceVars, intsMasked, lastButtonTime,
                   loopVars,
                   windowBase, observed>>

\* ----------------------------------------------------------- resetCounter()

NoInterruptsForgotten == intsMasked' = FALSE

\* noInterrupts(), lines 427 and 491
NoInterrupts == intsMasked' = TRUE

\* interrupts(), lines 446 and 512
Interrupts == intsMasked' = FALSE

RcNoInterrupts ==
    /\ LoopStep("rc_mask", "rc_capture")
    /\ NoInterrupts
    /\ UNCHANGED <<captureVars, debounceVars, buttonVars, loopVars,
                   windowBase, observed>>

RcClearCaptureStampsNow ==
    /\ LoopStep("rc_capture", "rc_debounce")
    /\ pulseCount' = 0
    /\ lastPulseTime' = micros
    /\ pulseInterval' = 0
    /\ newPulseReceived' = FALSE
    /\ UNCHANGED <<debounceVars, intsMasked, buttonVars, loopVars,
                   windowBase, observed>>

\* lines 494-497
RcClearCapture ==
    /\ LoopStep("rc_capture", "rc_debounce")
    /\ pulseCount' = 0
    /\ lastPulseTime' = 0
    /\ pulseInterval' = 0
    /\ newPulseReceived' = FALSE
    /\ UNCHANGED <<debounceVars, intsMasked, buttonVars, loopVars,
                   windowBase, observed>>

RcClearDebounceKeepsIndex ==
    /\ LoopStep("rc_debounce", "rc_timer")
    /\ currentDebounceTime' = DEBOUNCE_TIME_US_DEFAULT
    /\ pulseHistory' = EmptyHistory
    /\ UNCHANGED <<captureVars, historyIndex, intsMasked, buttonVars, loopVars,
                   windowBase, observed>>

\* lines 500-504
RcClearDebounce ==
    /\ LoopStep("rc_debounce", "rc_timer")
    /\ currentDebounceTime' = DEBOUNCE_TIME_US_DEFAULT
    /\ historyIndex' = 0
    /\ pulseHistory' = EmptyHistory
    /\ UNCHANGED <<captureVars, intsMasked, buttonVars, loopVars,
                   windowBase, observed>>

\* lines 507-509
RcRestartTimer ==
    /\ LoopStep("rc_timer", "rc_unmask")
    /\ lastResetTime' = IF AUTO_RESET_ENABLED THEN millis ELSE lastResetTime
    /\ UNCHANGED <<captureVars, debounceVars, intsMasked, buttonVars,
                   currentTime, lastDisplayTime, lastPulseCount,
                   windowBase, report,
                   pulsesInLastSecond, autoReport, observed>>

\* line 512
RcInterrupts ==
    /\ LoopStep("rc_unmask", "button_update")
    /\ Interrupts
    /\ UNCHANGED <<captureVars, debounceVars, buttonVars, loopVars,
                   windowBase, observed>>

\* ------------------------------------------------- loop(): automatic reset

\* lines 253-254
AutoResetCheck ==
    /\ pc = "auto_check"
    /\ ev' = "loop"
    /\ IF AUTO_RESET_ENABLED
          /\ UGeq(USub(currentTime, lastResetTime), AUTO_RESET_INTERVAL)
       THEN lastResetTime' = currentTime /\ pc' = "ar_mask"
       ELSE UNCHANGED lastResetTime /\ pc' = "poll"
    /\ UNCHANGED <<timeVars, captureVars, debounceVars, intsMasked, buttonVars,
                   currentTime, lastDisplayTime, lastPulseCount,
                   windowBase, report,
                   pulsesInLastSecond, autoReport, accepted, recent, observed>>

\* ------------------------------------------------------- autoResetCounter()

ArNoInterruptsForgotten ==
    /\ LoopStep("ar_mask", "ar_snapshot")
    /\ UNCHANGED <<captureVars, debounceVars, intsMasked, buttonVars,
                   loopVars, windowBase, observed>>

ArNoInterrupts ==
    /\ LoopStep("ar_mask", "ar_snapshot")
    /\ NoInterrupts
    /\ UNCHANGED <<captureVars, debounceVars, buttonVars, loopVars,
                   windowBase, observed>>

\* lines 430-431
ArSnapshot ==
    /\ LoopStep("ar_snapshot", "ar_capture")
    /\ autoReport' =
         [totalPulses |-> pulseCount,
          elapsedTime |->
              USub(millis, USub(lastResetTime, AUTO_RESET_INTERVAL))]
    /\ UNCHANGED <<captureVars, debounceVars, intsMasked, buttonVars,
                   currentTime, lastDisplayTime, lastResetTime, lastPulseCount,
                   windowBase,
                   report, pulsesInLastSecond, observed>>

\* lines 434-437
ArClearCapture ==
    /\ LoopStep("ar_capture", "ar_debounce")
    /\ pulseCount' = 0
    /\ lastPulseTime' = 0
    /\ pulseInterval' = 0
    /\ newPulseReceived' = FALSE
    /\ UNCHANGED <<debounceVars, intsMasked, buttonVars, loopVars,
                   windowBase, observed>>

ArClearDebounceKeepsHistory ==
    /\ LoopStep("ar_debounce", "ar_unmask")
    /\ currentDebounceTime' = DEBOUNCE_TIME_US_DEFAULT
    /\ historyIndex' = 0
    /\ UNCHANGED <<captureVars, pulseHistory, intsMasked, buttonVars,
                   loopVars, windowBase, observed>>

\* lines 440-444
ArClearDebounce ==
    /\ LoopStep("ar_debounce", "ar_unmask")
    /\ currentDebounceTime' = DEBOUNCE_TIME_US_DEFAULT
    /\ historyIndex' = 0
    /\ pulseHistory' = EmptyHistory
    /\ UNCHANGED <<captureVars, intsMasked, buttonVars, loopVars,
                   windowBase, observed>>

\* line 446
ArInterrupts ==
    /\ LoopStep("ar_unmask", "poll")
    /\ Interrupts
    /\ UNCHANGED <<captureVars, debounceVars, buttonVars, loopVars,
                   windowBase, observed>>

\* --------------------------------------------------- loop(): the pulse line

\* line 262
PollFlag ==
    /\ pc = "poll"
    /\ ev' = "loop"
    /\ IF newPulseReceived
       THEN pc' = "clear" /\ observed' = observed + 1
       ELSE pc' = "display_check" /\ UNCHANGED observed
    /\ autoReport' = NoAutoReport  \* autoResetCounter() has returned
    /\ UNCHANGED <<timeVars, captureVars, debounceVars, intsMasked, buttonVars,
                   currentTime, lastDisplayTime, lastResetTime, lastPulseCount,
                   windowBase,
                   report, pulsesInLastSecond, accepted, recent>>

ClearFlagForgotten == UNCHANGED newPulseReceived

\* line 264
ClearFlag == newPulseReceived' = FALSE

ConsumeFlag ==
    /\ LoopStep("clear", "freq_test")
    /\ ClearFlag
    /\ UNCHANGED <<pulseCount, lastPulseTime, pulseInterval, debounceVars,
                   intsMasked, buttonVars, loopVars,
                   windowBase, observed>>

\* line 270
FreqTest ==
    /\ pc = "freq_test"
    /\ ev' = "loop"
    /\ IF pulseInterval # 0
       THEN pc' = "freq_divide" /\ UNCHANGED report
       ELSE /\ pc' = "print_count"
            /\ report' = [report EXCEPT !.freq = <<0, 1>>, !.edges = accepted]
    /\ UNCHANGED <<timeVars, captureVars, debounceVars, intsMasked, buttonVars,
                   currentTime, lastDisplayTime, lastResetTime, lastPulseCount,
                   windowBase,
                   pulsesInLastSecond, autoReport, accepted, recent, observed>>

reportFrame == <<captureVars, debounceVars, intsMasked, buttonVars,
                 currentTime, lastDisplayTime, lastResetTime, lastPulseCount,
                 windowBase, pulsesInLastSecond, autoReport, observed>>

FreqDivideInverted ==
    /\ LoopStep("freq_divide", "print_count")
    /\ report' = [report EXCEPT !.freq = <<pulseInterval, 1000000>>,
                                !.edges = accepted]
    /\ UNCHANGED reportFrame

\* line 271
FreqDivide ==
    /\ LoopStep("freq_divide", "print_count")
    /\ report' = [report EXCEPT !.freq = <<1000000, pulseInterval>>,
                                !.edges = accepted]
    /\ UNCHANGED reportFrame

\* line 279
PrintCount ==
    /\ LoopStep("print_count", "print_period")
    /\ report' = [report EXCEPT !.count = pulseCount,
                                !.torn = @ \/ accepted # report.edges]
    /\ UNCHANGED reportFrame

PrintPeriodConsumes ==
    /\ LoopStep("print_period", "print_debounce")
    /\ report' = [report EXCEPT !.interval = pulseInterval,
                                !.torn = @ \/ accepted # report.edges]
    /\ pulseInterval' = 0
    /\ UNCHANGED <<pulseCount, lastPulseTime, newPulseReceived, debounceVars,
                   intsMasked, buttonVars, currentTime, lastDisplayTime,
                   lastResetTime, lastPulseCount, windowBase,
                   pulsesInLastSecond, autoReport, observed>>

\* line 283
PrintPeriod ==
    /\ LoopStep("print_period", "print_debounce")
    /\ report' = [report EXCEPT !.interval = pulseInterval,
                                !.torn = @ \/ accepted # report.edges]
    /\ UNCHANGED reportFrame

\* line 285
PrintDebounce ==
    /\ LoopStep("print_debounce", "display_check")
    /\ report' = [report EXCEPT !.debounce = currentDebounceTime,
                                !.torn = @ \/ accepted # report.edges,
                                !.printed = TRUE]
    /\ UNCHANGED reportFrame

\* --------------------------------------------- loop(): the periodic report

\* lines 292-293
DisplayCheck ==
    /\ pc = "display_check"
    /\ ev' = "loop"
    /\ IF UGeq(USub(currentTime, lastDisplayTime), DISPLAY_INTERVAL)
       THEN lastDisplayTime' = currentTime /\ pc' = "display_window"
       ELSE UNCHANGED lastDisplayTime /\ pc' = "delay"
    /\ report' = NoReport          \* line 288 ends the scope of the pulse line
    /\ UNCHANGED <<timeVars, captureVars, debounceVars, intsMasked, buttonVars,
                   currentTime, lastResetTime, lastPulseCount,
                   windowBase,
                   pulsesInLastSecond, autoReport, accepted, recent, observed>>

\* line 298
DisplayWindow ==
    /\ LoopStep("display_window", "display_save")
    /\ pulsesInLastSecond' = USub(pulseCount, lastPulseCount)
    /\ UNCHANGED <<captureVars, debounceVars, intsMasked, buttonVars,
                   currentTime, lastDisplayTime, lastResetTime, lastPulseCount,
                   windowBase,
                   report, autoReport, observed>>

DisplaySaveSwapped ==
    /\ LoopStep("display_save", "delay")
    /\ pulseCount' = lastPulseCount
    /\ UNCHANGED <<lastPulseTime, pulseInterval, newPulseReceived,
                   debounceVars, intsMasked, buttonVars, loopVars,
                   windowBase, observed>>

\* line 299
DisplaySave ==
    /\ LoopStep("display_save", "delay")
    /\ lastPulseCount' = pulseCount
    /\ windowBase' = accepted
    /\ UNCHANGED <<captureVars, debounceVars, intsMasked, buttonVars,
                   currentTime, lastDisplayTime, lastResetTime, report,
                   pulsesInLastSecond, autoReport, observed>>

\* line 338: delay(10) lets at least DELAY_MS milliseconds pass
LoopDelay ==
    /\ pc = "delay"
    /\ pc' = "loop_start"
    /\ ev' = "loop"
    /\ Advance(DELAY_MS * 1000)
    /\ pulsesInLastSecond' = 0     \* line 333 ends the scope of the report
    /\ UNCHANGED <<captureVars, debounceVars, intsMasked, buttonVars,
                   currentTime, lastDisplayTime, lastResetTime, lastPulseCount,
                   windowBase,
                   report, autoReport, accepted, recent, observed>>

\* the loop stays blocked (in the serial output of the iteration that ends)
\* before the next iteration reads the clock
LoopBlocked ==
    /\ pc = "loop_start"
    /\ ev' = "wait"
    /\ \E d \in Waits : Advance(d)
    /\ UNCHANGED <<captureVars, debounceVars, intsMasked, pc, buttonVars,
                   loopVars, windowBase, accepted, recent, observed>>

\* -------------------------------------------------------------------- spec

Init ==
    /\ micros = 0
    /\ millis = 0
    /\ subMs = 0
    /\ nTicks = 0
    /\ pulseCount = 0
    /\ lastPulseTime = 0
    /\ pulseInterval = 0
    /\ newPulseReceived = FALSE
    /\ currentDebounceTime = DEBOUNCE_TIME_US_DEFAULT
    /\ pulseHistory = EmptyHistory
    /\ historyIndex = 0
    /\ intsMasked = FALSE
    /\ pc = "loop_start"
    /\ currentTime = 0
    /\ lastDisplayTime = 0
    /\ lastResetTime = 0
    /\ lastPulseCount = 0
    /\ lastButtonState = HIGH
    /\ lastButtonTime = 0
    /\ report = NoReport
    /\ pulsesInLastSecond = 0
    /\ autoReport = NoAutoReport
    /\ accepted = 0
    /\ recent = <<>>
    /\ windowBase = 0
    /\ observed = 0
    /\ ev = "loop"

Next ==
    \/ PulseInterrupt
    \/ LoopBlocked
    \/ LoopStart
    \/ CheckButtonPress
    \/ RcNoInterrupts
    \/ RcClearCapture
    \/ RcClearDebounce
    \/ RcRestartTimer
    \/ RcInterrupts
    \/ ButtonUpdate
    \/ AutoResetCheck
    \/ ArNoInterrupts
    \/ ArSnapshot
    \/ ArClearCapture
    \/ ArClearDebounce
    \/ ArInterrupts
    \/ PollFlag
    \/ ConsumeFlag
    \/ FreqTest
    \/ FreqDivide
    \/ PrintCount
    \/ PrintPeriod
    \/ PrintDebounce
    \/ DisplayCheck
    \/ DisplayWindow
    \/ DisplaySave
    \/ LoopDelay

Spec == Init /\ [][Next]_vars

\* ------------------------------------- edges before the loop's first step

BootShared ==
    [pulseCount |-> 0, lastPulseTime |-> 0, pulseInterval |-> 0,
     newPulseReceived |-> FALSE,
     currentDebounceTime |-> DEBOUNCE_TIME_US_DEFAULT,
     pulseHistory |-> EmptyHistory, historyIndex |-> 0]

WarmGap == CHOOSE g \in Gaps : \A h \in Gaps : g >= h

\* the shared variables after k edges, WarmGap apart, handled since boot
RECURSIVE AfterEdges(_)
AfterEdges(k) ==
    IF k = 0 THEN BootShared ELSE HandleEdge(AfterEdges(k - 1), k * WarmGap)

\* setup() attached the handler and WarmEdges edges arrived before loop() ran
InitWarm ==
    /\ micros = WarmEdges * WarmGap
    /\ millis = (WarmEdges * WarmGap) \div 1000
    /\ subMs = (WarmEdges * WarmGap) % 1000
    /\ nTicks = 0
    /\ pulseCount = AfterEdges(WarmEdges).pulseCount
    /\ lastPulseTime = AfterEdges(WarmEdges).lastPulseTime
    /\ pulseInterval = AfterEdges(WarmEdges).pulseInterval
    /\ newPulseReceived = AfterEdges(WarmEdges).newPulseReceived
    /\ currentDebounceTime = AfterEdges(WarmEdges).currentDebounceTime
    /\ pulseHistory = AfterEdges(WarmEdges).pulseHistory
    /\ historyIndex = AfterEdges(WarmEdges).historyIndex
    /\ intsMasked = FALSE
    /\ pc = "loop_start"
    /\ currentTime = 0
    /\ lastDisplayTime = 0
    /\ lastResetTime = 0
    /\ lastPulseCount = 0
    /\ lastButtonState = HIGH
    /\ lastButtonTime = 0
    /\ report = NoReport
    /\ pulsesInLastSecond = 0
    /\ autoReport = NoAutoReport
    /\ accepted = AfterEdges(WarmEdges).pulseCount
    /\ recent = Latest([k \in 1 .. AfterEdges(WarmEdges).pulseCount
                              |-> WarmGap])
    /\ windowBase = 0
    /\ observed = 0
    /\ ev = "isr"

SpecWarm == InitWarm /\ [][Next]_vars

\* ------------------------------------------- a run across the micros() wrap

\* millis() and the microseconds into that millisecond when micros(), an
\* unsigned long, reaches 2^32 (about 71.6 minutes after boot)
WrapMillis == 4 * (TWO_TO_30 \div 1000) + (4 * (TWO_TO_30 % 1000)) \div 1000
WrapSubMs == (4 * (TWO_TO_30 % 1000)) % 1000

\* loop() starts an iteration lead microseconds before micros() wraps; no
\* edge arrived since boot, and the iteration before this one, DELAY_MS
\* earlier, ran the automatic reset and the periodic report and saw the
\* button released
InitWrap ==
    \E lead \in WrapLeads :
        LET back == (lead - WrapSubMs + 999) \div 1000
            now == WrapMillis - back
        IN /\ micros = UNeg(lead)
           /\ millis = now
           /\ subMs = (back * 1000 + WrapSubMs - lead) % 1000
           /\ nTicks = 0
           /\ pulseCount = 0
           /\ lastPulseTime = 0
           /\ pulseInterval = 0
           /\ newPulseReceived = FALSE
           /\ currentDebounceTime = DEBOUNCE_TIME_US_DEFAULT
           /\ pulseHistory = EmptyHistory
           /\ historyIndex = 0
           /\ intsMasked = FALSE
           /\ pc = "loop_start"
           /\ currentTime = now - DELAY_MS
           /\ lastDisplayTime = now - DELAY_MS
           /\ lastResetTime = now - DELAY_MS
           /\ lastPulseCount = 0
           /\ lastButtonState = HIGH
           /\ lastButtonTime = now - DELAY_MS
           /\ report = NoReport
           /\ pulsesInLastSecond = 0
           /\ autoReport = NoAutoReport
           /\ accepted = 0
           /\ recent = <<>>
           /\ windowBase = 0
           /\ observed = 0
           /\ ev = "loop"

SpecWrap == InitWrap /\ [][Next]_vars

\* ------------------------------------------ a steady stream of equal edges

\* the handler, for an edge that arrives exactly one pulseInterval after the
\* edge before it
SteadyEdge ==
    /\ nTicks < MaxRepeats
    /\ nTicks' = nTicks + 1
    /\ Elapse(pulseInterval)
    /\ RunHandler

\* the history holds HISTORY_SIZE intervals I of a stream that was accepted
\* since boot, and the threshold is one that earlier input left
InitSteady ==
    \E I \in SteadyIntervals, t0 \in StartThresholds :
        /\ t0 < I
        /\ micros = HISTORY_SIZE * I
        /\ millis = (HISTORY_SIZE * I) \div 1000
        /\ subMs = (HISTORY_SIZE * I) % 1000
        /\ nTicks = 0
        /\ pulseCount = HISTORY_SIZE
        /\ lastPulseTime = HISTORY_SIZE * I
        /\ pulseInterval = I
        /\ newPulseReceived = TRUE
        /\ currentDebounceTime = t0
        /\ pulseHistory = [i \in 0 .. (HISTORY_SIZE - 1) |-> I]
        /\ historyIndex = 0
        /\ intsMasked = FALSE
        /\ pc = "loop_start"
        /\ currentTime = 0
        /\ lastDisplayTime = 0
        /\ lastResetTime = 0
        /\ lastPulseCount = 0
        /\ lastButtonState = HIGH
        /\ lastButtonTime = 0
        /\ report = NoReport
        /\ pulsesInLastSecond = 0
        /\ autoReport = NoAutoReport
        /\ accepted = HISTORY_SIZE
        /\ recent = [k \in 1 .. HISTORY_SIZE |-> I]
        /\ windowBase = 0
        /\ observed = 0
        /\ ev = "isr"

NextSteady == SteadyEdge

SpecSteady == InitSteady /\ [][NextSteady]_vars

\* ------------------------------------------------------------- properties

\* the interval the handler computes for the edge of this step (line 133)
EdgeInterval == USub(micros', lastPulseTime)

\* this step is a run of the handler
EdgeStep == ev' = "isr"

\* this step is the one that zeroes the counters in either reset
ResetStep == pc \in {"rc_capture", "ar_capture"} /\ pc' # pc

\* the capture and debounce state a reset leaves
Cleared ==
    /\ pulseCount = 0
    /\ lastPulseTime = 0
    /\ pulseInterval = 0
    /\ newPulseReceived = FALSE
    /\ currentDebounceTime = DEBOUNCE_TIME_US_DEFAULT
    /\ historyIndex = 0
    /\ pulseHistory = EmptyHistory

\* C1: every edge whose interval since the last accepted edge is strictly
\* greater than the debounce time in effect when it arrives adds exactly 1
\* to pulseCount.
C1_AcceptedEdgeCounts ==
    [][(EdgeStep /\ UGreater(EdgeInterval, currentDebounceTime))
          => pulseCount' = pulseCount + 1]_vars

\* two such edges were counted, and nothing else was
C1_Witness == pulseCount = 2 /\ accepted = 2

\* C2: an edge whose interval since the last accepted edge is within
\* [0, currentDebounceTime] leaves pulseCount, lastPulseTime, pulseInterval,
\* newPulseReceived, pulseHistory, historyIndex and currentDebounceTime as
\* they were.
C2_BounceChangesNothing ==
    [][(EdgeStep /\ ~UGreater(EdgeInterval, currentDebounceTime))
          => UNCHANGED <<captureVars, debounceVars>>]_vars

\* the handler just ran, some time after an accepted edge, and discarded
\* the edge
C2_Witness ==
    /\ ev = "isr"
    /\ accepted >= 1
    /\ micros # lastPulseTime
    /\ ~UGreater(USub(micros, lastPulseTime), currentDebounceTime)

\* C3: when resetCounter() or autoResetCounter() re-enables interrupts, the
\* counters, the flag, the debounce time, the history and its index have
\* their initial values, whatever they were before.
C3_ResetClears ==
    [][(pc \in {"rc_unmask", "ar_unmask"} /\ pc' # pc) => Cleared']_vars

\* a manual reset has just completed after edges had been accepted
C3_Witness ==
    /\ pc = "button_update"
    /\ accepted >= 2
    /\ Cleared

\* C4: the handler does not run between the first and the last write of a
\* reset, so it never sees counters already zeroed next to a history not
\* yet cleared.
C4_NoEdgeInsideReset ==
    [][(pc \in {"rc_debounce", "ar_debounce"}) => ~EdgeStep]_vars

\* a reset has zeroed the counters and not yet the history
C4_Witness ==
    /\ pc \in {"rc_debounce", "ar_debounce"}
    /\ pulseCount = 0
    /\ historyIndex # 0
    /\ pulseHistory # EmptyHistory

\* C5: the frequency, the count, the period and the debounce time of one
\* pulse line are all read with no edge accepted between two of the reads.
C5_ReportNotTorn == report.printed => ~report.torn

\* C6: no edge is accepted between the loop's read of newPulseReceived
\* (line 262) and its clear (line 264).
C6_ConsumeIsAtomic == [][pc = "clear" => accepted' = accepted]_vars

\* C7: the loop has found newPulseReceived set at most as many times as
\* edges were accepted.
C7_ObservedAtMostAccepted == observed <= accepted

\* the loop has seen the flag of each of two accepted edges
C7_Witness == observed = 2 /\ accepted = 2 /\ ~newPulseReceived

\* C8: currentDebounceTime is always within
\* [DEBOUNCE_TIME_US_MIN, DEBOUNCE_TIME_US_MAX].
C8_DebounceWithinBounds ==
    /\ UGeq(currentDebounceTime, DEBOUNCE_TIME_US_MIN)
    /\ UGeq(DEBOUNCE_TIME_US_MAX, currentDebounceTime)

\* the debounce time was recomputed from a history whose average, divided
\* by 12, is above DEBOUNCE_TIME_US_MAX
C8_Witness ==
    /\ ValidCount(pulseHistory) >= 2
    /\ currentDebounceTime # DEBOUNCE_TIME_US_DEFAULT
    /\ UGreater(UDiv(UDiv(SumValid(pulseHistory, 0), ValidCount(pulseHistory)),
                     12),
                DEBOUNCE_TIME_US_MAX)

\* C9: historyIndex is always one of 0, 1, 2, 3, 4.
C9_IndexInRange == historyIndex \in 0 .. (HISTORY_SIZE - 1)

\* the index came back to 0 after HISTORY_SIZE accepted edges
C9_Witness == historyIndex = 0 /\ pulseCount = HISTORY_SIZE

\* C10: every step other than the zeroing step of a reset leaves pulseCount
\* at least as large as it was.
C10_CountOnlyDropsAtReset ==
    [][~ResetStep => UGeq(pulseCount', pulseCount)]_vars

\* edges were accepted and discarded, and the loop has read and cleared the
\* flag and saved the count for its periodic report
C10_Witness ==
    /\ pulseCount >= 1
    /\ observed >= 1
    /\ lastPulseCount = pulseCount
    /\ pc = "delay"

\* the sum of the entries of a history, as an integer that does not wrap
RECURSIVE PlainSum(_, _)
PlainSum(h, i) ==
    IF i = HISTORY_SIZE THEN 0 ELSE h[i] + PlainSum(h, i + 1)

\* an interval so long that, alone in a history, it lifts the average
\* divided by 12 to DEBOUNCE_TIME_US_MAX or above
LongInterval == HISTORY_SIZE * 12 * DEBOUNCE_TIME_US_MAX

\* (sum of the non-zero entries / number of non-zero entries) / 12, clamped
\* into [DEBOUNCE_TIME_US_MIN, DEBOUNCE_TIME_US_MAX], with the sum taken
\* over the integers
AverageCandidate(h) ==
    IF \E i \in DOMAIN h : UGeq(h[i], LongInterval)
    THEN DEBOUNCE_TIME_US_MAX
    ELSE LET c == (PlainSum(h, 0) \div ValidCount(h)) \div 12
         IN IF c < DEBOUNCE_TIME_US_MIN THEN DEBOUNCE_TIME_US_MIN
            ELSE IF c > DEBOUNCE_TIME_US_MAX THEN DEBOUNCE_TIME_US_MAX
            ELSE c

\* C11: when an accepted edge leaves at least two non-zero entries in the
\* history, the recompute sets the threshold to (old * 7 + c * 3) / 10,
\* truncated, where c is the average of the non-zero entries divided by 12
\* and clamped; five entries of 1000 and a threshold of 1000 give 790.
C11_RecomputeBlendsAverage ==
    [][(EdgeStep /\ accepted' # accepted /\ ValidCount(pulseHistory') >= 2)
           => /\ currentDebounceTime' =
                     (currentDebounceTime * 7
                          + AverageCandidate(pulseHistory') * 3) \div 10
              /\ UpdateAdaptiveDebounce(
                     [i \in 0 .. (HISTORY_SIZE - 1) |-> 1000], 1000) = 790
      ]_vars

\* the 32-bit sum of line 391 passed 2^32 while the entries were added
RECURSIVE SumWraps(_, _, _)
SumWraps(h, i, acc) ==
    IF i = HISTORY_SIZE THEN FALSE
    ELSE \/ ULess(UAdd(acc, h[i]), acc)
         \/ SumWraps(h, i + 1, UAdd(acc, h[i]))

\* the sum of the entries modulo 2^32, as the unsigned long of line 385
\* holds it
RECURSIVE ModularSum(_, _)
ModularSum(h, i) ==
    IF i < 0 THEN 0 ELSE UAdd(ModularSum(h, i - 1), h[i])

\* ((sum of the non-zero entries modulo 2^32) / number of non-zero entries)
\* / 12, clamped into [DEBOUNCE_TIME_US_MIN, DEBOUNCE_TIME_US_MAX]
ModularCandidate(h) ==
    IF ~SumWraps(h, 0, 0) THEN AverageCandidate(h)
    ELSE LET c == UDiv(UDiv(ModularSum(h, HISTORY_SIZE - 1), ValidCount(h)),
                       12)
         IN IF ULess(c, DEBOUNCE_TIME_US_MIN) THEN DEBOUNCE_TIME_US_MIN
            ELSE IF UGreater(c, DEBOUNCE_TIME_US_MAX) THEN DEBOUNCE_TIME_US_MAX
            ELSE c

\* C11, amended: when an accepted edge leaves at least two non-zero entries
\* in the history, the recompute sets the threshold to (old * 7 + c * 3) /
\* 10, truncated, where c is the sum of the non-zero entries modulo 2^32,
\* divided by their number and by 12, and clamped; five entries of 1000 and
\* a threshold of 1000 give 730.
C11_RecomputeBlendsModularAverage ==
    [][(EdgeStep /\ accepted' # accepted /\ ValidCount(pulseHistory') >= 2)
           => /\ currentDebounceTime' =
                     (currentDebounceTime * 7
                          + ModularCandidate(pulseHistory') * 3) \div 10
              /\ UpdateAdaptiveDebounce(
                     [i \in 0 .. (HISTORY_SIZE - 1) |-> 1000], 1000) = 730
      ]_vars

\* the handler has just recomputed the threshold from two intervals whose
\* sum passed 2^32, and moved it
C11_Witness ==
    /\ ev = "isr"
    /\ ValidCount(pulseHistory) = 2
    /\ SumWraps(pulseHistory, 0, 0)
    /\ pulseInterval = recent[Len(recent)]
    /\ currentDebounceTime # DEBOUNCE_TIME_US_DEFAULT

\* C12: with fewer than two non-zero entries in the history the recompute
\* leaves the threshold as it was, whatever the history and the threshold:
\* at every accepted edge that leaves fewer than two, and for every history
\* with at most one non-zero entry under each threshold an edge leaves.
C12_FewSamplesKeepThreshold ==
    [][(EdgeStep /\ accepted' # accepted)
           => /\ ValidCount(pulseHistory') < 2
                  => currentDebounceTime' = currentDebounceTime
              /\ \A v \in {0} \cup SteadyIntervals, i \in DOMAIN EmptyHistory :
                     UpdateAdaptiveDebounce([EmptyHistory EXCEPT ![i] = v],
                                            currentDebounceTime')
                         = currentDebounceTime']_vars

\* the first edge since the counters were cleared has just been accepted and
\* recorded
C12_Witness ==
    /\ ev = "isr"
    /\ pulseCount = 1
    /\ ValidCount(pulseHistory) = 1
    /\ pulseHistory[0] = pulseInterval
    /\ currentDebounceTime = DEBOUNCE_TIME_US_DEFAULT

\* interval / 12 clamped into [DEBOUNCE_TIME_US_MIN, DEBOUNCE_TIME_US_MAX]
ClampedTwelfth(interval) ==
    LET c == interval \div 12
    IN IF c < DEBOUNCE_TIME_US_MIN THEN DEBOUNCE_TIME_US_MIN
       ELSE IF c > DEBOUNCE_TIME_US_MAX THEN DEBOUNCE_TIME_US_MAX
       ELSE c

\* the threshold moved towards c, or stayed, and did not pass c
TowardsCandidate(c) ==
    /\ currentDebounceTime >= c
           => (c <= currentDebounceTime'
                   /\ currentDebounceTime' <= currentDebounceTime)
    /\ currentDebounceTime <= c
           => (currentDebounceTime <= currentDebounceTime'
                   /\ currentDebounceTime' <= c)

\* C13: under accepted edges that all have the interval I the history is
\* filled with, from any threshold in [DEBOUNCE_TIME_US_MIN,
\* DEBOUNCE_TIME_US_MAX], the thresholds move in one direction only and,
\* after MaxRepeats edges, have come to rest at I / 12 clamped.
C13_SteadyInputSettlesAtCandidate ==
    [][EdgeStep
           => /\ pulseInterval' = pulseInterval
              /\ TowardsCandidate(ClampedTwelfth(pulseInterval))
              /\ nTicks' = MaxRepeats
                     => currentDebounceTime' = ClampedTwelfth(pulseInterval)
      ]_vars

\* C13, amended: under the same edges the thresholds move in one direction
\* only, never pass c = I / 12 clamped, and after MaxRepeats edges have come
\* to rest at a value the blend leaves unchanged, between c - 3 and c.
C13_SteadyInputSettlesNearCandidate ==
    [][EdgeStep
           => /\ pulseInterval' = pulseInterval
              /\ TowardsCandidate(ClampedTwelfth(pulseInterval))
              /\ nTicks' = MaxRepeats
                     => LET c == ClampedTwelfth(pulseInterval)
                            t == currentDebounceTime'
                        IN /\ c - 3 <= t
                           /\ t <= c
                           /\ (t * 7 + c * 3) \div 10 = t]_vars

\* MaxRepeats equal edges were accepted and the threshold, which started
\* below the candidate, rests 3 below it
C13_Witness ==
    /\ nTicks = MaxRepeats
    /\ accepted = HISTORY_SIZE + MaxRepeats
    /\ \A i \in DOMAIN pulseHistory : pulseHistory[i] = pulseInterval
    /\ currentDebounceTime = ClampedTwelfth(pulseInterval) - 3

\* C14: an edge that arrives while lastPulseTime is still the 0 that boot or
\* a reset left, no edge having been accepted since, is accepted whatever
\* its timestamp and whatever the threshold.
C14_FirstEdgeAlwaysAccepted ==
    [][(EdgeStep /\ pulseCount = 0 /\ lastPulseTime = 0)
           => (pulseCount' = 1 /\ lastPulseTime' = micros')]_vars

\* C15: an edge at time t whose interval since lastPulseTime passes the
\* debounce test stores that interval in pulseInterval, t in lastPulseTime,
\* overwrites the history slot at the old historyIndex and no other, moves
\* historyIndex to (old + 1) mod HISTORY_SIZE and sets newPulseReceived; so
\* once HISTORY_SIZE edges were accepted since a reset the history holds the
\* intervals of the last HISTORY_SIZE accepted edges, the oldest at
\* historyIndex.
C15_AcceptedEdgeRecords ==
    [][(EdgeStep /\ UGreater(EdgeInterval, currentDebounceTime))
           => /\ pulseInterval' = EdgeInterval
              /\ lastPulseTime' = micros'
              /\ pulseHistory' =
                     [pulseHistory EXCEPT ![historyIndex] = EdgeInterval]
              /\ historyIndex' = (historyIndex + 1) % HISTORY_SIZE
              /\ newPulseReceived' = TRUE
              /\ Len(recent') = HISTORY_SIZE
                     => \A j \in 1 .. HISTORY_SIZE :
                            pulseHistory'[(historyIndex' + j - 1)
                                              % HISTORY_SIZE] = recent'[j]
      ]_vars

\* the sixth edge since boot was accepted and its interval replaced the
\* first one, which was different, in slot 0
C15_Witness ==
    /\ ev = "isr"
    /\ pulseCount = HISTORY_SIZE + 1
    /\ historyIndex = 1
    /\ Len(recent) = HISTORY_SIZE
    /\ pulseHistory[0] = pulseInterval
    /\ pulseHistory[0] # pulseHistory[1]

\* the positions of the loop inside resetCounter() and autoResetCounter()
ResetPcs ==
    {"rc_mask", "rc_capture", "rc_debounce", "rc_timer", "rc_unmask",
     "ar_mask", "ar_snapshot", "ar_capture", "ar_debounce", "ar_unmask"}

\* C16: a reset, manual or automatic, that runs on the capture and debounce
\* state a reset left, no edge having arrived in between, leaves that state
\* as it found it, at each of its steps.
C16_ResetIsIdempotent ==
    [][(pc \in ResetPcs /\ ~EdgeStep /\ Cleared) => Cleared']_vars

\* the loop has just run the automatic reset in the iteration in which the
\* button press ran the manual one, and the automatic one found the count
\* still at 0
C16_Witness ==
    /\ pc = "poll"
    /\ Cleared
    /\ accepted >= 1
    /\ lastButtonState = LOW
    /\ UGeq(lastButtonTime, currentTime)
    /\ autoReport.elapsedTime # 0
    /\ autoReport.totalPulses = 0

\* the positions at which loop() reads the capture and debounce state for
\* the pulse line and for the periodic report
ReadPcs ==
    {"freq_test", "freq_divide", "print_count", "print_period",
     "print_debounce", "display_window", "display_save"}

\* C17: a read by the loop changes none of pulseCount, pulseInterval,
\* currentDebounceTime, pulseHistory, historyIndex and lastPulseTime, and
\* as long as no edge was accepted since the pulse line was read a second
\* read of pulseCount, pulseInterval and currentDebounceTime returns what
\* the line holds.
C17_ReadIsIdempotent ==
    [][/\ (pc \in ReadPcs /\ ~EdgeStep)
              => UNCHANGED <<pulseCount, pulseInterval, currentDebounceTime,
                             pulseHistory, historyIndex, lastPulseTime>>
       /\ (report'.printed /\ report'.edges = accepted')
              => /\ report'.count = pulseCount'
                 /\ report'.interval = pulseInterval'
                 /\ report'.debounce = currentDebounceTime'
                 /\ report'.freq = <<1000000, pulseInterval'>>]_vars

\* the pulse line was read, and the handler then discarded an edge, so that
\* no edge was accepted since
C17_Witness ==
    /\ pc = "display_check"
    /\ ev = "isr"
    /\ report.printed
    /\ report.edges = accepted
    /\ report.count = pulseCount
    /\ pulseCount >= 1

\* C18: the frequency the loop derives is 1000000 / pulseInterval when
\* pulseInterval is above 0 and 0 when it is 0, with no division by zero; a
\* pulseInterval of 1000 gives 1000.
C18_FrequencyIsReciprocal ==
    [][(pc \in {"freq_test", "freq_divide"} /\ pc' = "print_count")
           => /\ report'.freq[2] # 0
              /\ pulseInterval # 0
                     => report'.freq = <<1000000, pulseInterval>>
              /\ pulseInterval = 0 => report'.freq[1] = 0
              /\ pulseInterval = 1000
                     => report'.freq[1] = 1000 * report'.freq[2]]_vars

\* the loop has just derived the frequency of an edge that came 1000
\* microseconds after the one before it
C18_Witness ==
    /\ pc = "print_count"
    /\ ev = "loop"
    /\ pulseInterval = 1000
    /\ report.freq = <<1000000, 1000>>

\* C19: the windowed count of the periodic report, pulseCount now minus the
\* pulseCount sampled at the report before, equals the number of edges
\* accepted between the two samples and so never exceeds it, resets
\* included.  The formula states the bound, which the equality implies.
C19_WindowedCountBounded ==
    [][(pc = "display_window" /\ pc' = "display_save")
           => ~UGreater(pulsesInLastSecond', accepted - windowBase)]_vars

\* C20: the automatic reset runs only when AUTO_RESET_INTERVAL milliseconds
\* or more have passed since lastResetTime, the time of the last reset of
\* either kind: not in the iteration of a manual reset, nor sooner after
\* it, also when the clock advanced between the loop's reading of millis()
\* and the manual reset.
C20_AutoResetWaitsForInterval ==
    [][(pc = "auto_check" /\ pc' = "ar_mask")
           => UGeq(USub(millis, lastResetTime), AUTO_RESET_INTERVAL)]_vars

\* C21: the total autoResetCounter() saved for its report equals pulseCount
\* at the step that zeroes it, and no edge is accepted between the saving
\* and the zeroing: every edge accepted before the reset is in the reported
\* total and none of them is in the count that starts at 0.
C21_SnapshotIsCountAtClear ==
    [][/\ (pc = "ar_capture" /\ pc' # pc)
              => (autoReport.totalPulses = pulseCount /\ pulseCount' = 0)
       /\ pc \in {"ar_snapshot", "ar_capture"}
              => (accepted' = accepted /\ pulseCount' \in {pulseCount, 0})
      ]_vars

\* the automatic reset has just zeroed a count of two or more edges, all
\* the edges accepted since boot, and reports that many
C21_Witness ==
    /\ pc = "ar_debounce"
    /\ pulseCount = 0
    /\ accepted >= 2
    /\ autoReport.totalPulses = accepted

\* C22: whenever interrupts are enabled, that is outside the critical
\* section in which a reset clears them one after the other, the number of
\* non-zero history slots is min(pulseCount, HISTORY_SIZE) and historyIndex
\* is pulseCount mod HISTORY_SIZE.
C22_RingMatchesCount ==
    InterruptsEnabled
        => /\ ValidCount(pulseHistory) =
                  (IF ULess(pulseCount, HISTORY_SIZE) THEN pulseCount
                   ELSE HISTORY_SIZE)
           /\ historyIndex = pulseCount % HISTORY_SIZE

\* seven edges were accepted since boot: the ring is full and the index has
\* wrapped to 2
C22_Witness ==
    /\ InterruptsEnabled
    /\ pulseCount = HISTORY_SIZE + 2
    /\ historyIndex = 2
    /\ ValidCount(pulseHistory) = HISTORY_SIZE

\* C23: for a candidate c in [DEBOUNCE_TIME_US_MIN, DEBOUNCE_TIME_US_MAX],
\* every threshold t that the blend of line 413 leaves unchanged satisfies
\* c - 3 <= t <= c, and c - 3 is such a threshold: for the candidate of each
\* steady edge and every t in the range, and, once MaxRepeats edges have
\* arrived, for every c in the range and the thresholds next to it.
C23_FixedPointsJustBelowCandidate ==
    [][EdgeStep
           => /\ LET c == ClampedTwelfth(pulseInterval)
                 IN /\ \A t \in DEBOUNCE_TIME_US_MIN .. DEBOUNCE_TIME_US_MAX :
                           Smooth(t, c) = t => (c - 3 <= t /\ t <= c)
                    /\ currentDebounceTime' = currentDebounceTime
                           => /\ c - 3 <= currentDebounceTime
                              /\ currentDebounceTime <= c
              /\ nTicks' = MaxRepeats
                     => \A c \in DEBOUNCE_TIME_US_MIN .. DEBOUNCE_TIME_US_MAX :
                            /\ Smooth(c - 3, c) = c - 3
                            /\ Smooth(c, c) = c
                            /\ Smooth(c - 4, c) # c - 4
                            /\ Smooth(c + 1, c) # c + 1]_vars

\* the first steady edge has just left unchanged a threshold that is below
\* the candidate of its interval
C23_Witness ==
    /\ ev = "isr"
    /\ nTicks = 1
    /\ currentDebounceTime \in StartThresholds
    /\ currentDebounceTime < ClampedTwelfth(pulseInterval)
    /\ Smooth(currentDebounceTime, ClampedTwelfth(pulseInterval))
           = currentDebounceTime
====
